---- MODULE Spec2Model ----
(***************************************************************************)
(* The Courses view of the course-grading front end: the component that    *)
(* keeps courseIds and courses in step with the ledger through two chained *)
(* subscriptions (Course.js), and the course cards with their transfer,    *)
(* set-price and buy dialogs (CourseCards.js).                             *)
(***************************************************************************)
EXTENDS Integers, Sequences, FiniteSets, Bags, TLC

(* ---------------------------------------------------------------------- *)
(* Values                                                                  *)
(* ---------------------------------------------------------------------- *)

\* JavaScript values: undefined, null, numbers, strings, H256 hashes, functions.
JUndefined == [t |-> "undefined"]
JFunction == [t |-> "function"]
JNull == [t |-> "null"]
JNum(n) == [t |-> "number", v |-> n]
JStr(x) == [t |-> "string", v |-> x]
Hash(x) == [t |-> "hash", v |-> x]

\* Course identifiers (dna), in the order the key space enumerates them.
IdOrder == <<Hash("d1"), Hash("d2")>>
Ids == {IdOrder[i] : i \in 1..Len(IdOrder)}
\* Account addresses.
Accounts == {"alice", "bob"}
\* Listing prices a record can carry on the ledger.
PriceValues == {0, 5}
\* Course years a record can carry on the ledger.
YearValues == {1}

\* How many aggregate-count pushes are delivered.
MaxPushes == 2
\* How many times the ledger changes.
MaxChainOps == 2
\* How many times the api/keyring context changes identity.
MaxContextChanges == 1

\* The wire representation Option<T>.
None == [isSome |-> FALSE]
Some(v) == [isSome |-> TRUE, value |-> v]

\* Option<Balance>.toJSON() and u32.toJSON().
OptionToJSON(o) == IF o.isSome THEN JNum(o.value) ELSE JNull
NumToJSON(n) == JNum(n)
\* AccountId.toJSON(): the address string.
AccountToJSON(a) == a

\* JavaScript truthiness (!x is Falsy(x)): undefined, null, 0 and '' are falsy.
Falsy(j) ==
    \/ j.t \in {"undefined", "null"}
    \/ (j.t = "number" /\ j.v = 0)
    \/ (j.t = "string" /\ j.v = "")

\* What the user types into a dialog's input.
FormInputs == {JStr("bob")}

(* ---------------------------------------------------------------------- *)
(* State                                                                   *)
(* ---------------------------------------------------------------------- *)

VARIABLES
    ledger,          \* courseGrading.courses on the chain: Ids -> Option<record>
    chainOps,        \* how many times the ledger changed
    mounted,         \* whether the Courses component is mounted
    contexts,        \* how many times api/keyring changed identity
    courseIds,       \* useState([]) of Course.js:18
    courses,         \* useState([]) of Course.js:19
    status,          \* useState('') of Course.js:20
    countSub,        \* the newest run of subscribeCount: "none", "pending" or "open"
    staleCountSubs,  \* earlier runs whose cleanup called nothing: a bag of "orphan", "leaked"
    pushCount,       \* how many aggregate pushes were delivered
    enums,           \* the entries() calls in flight, in the order of their pushes:
                     \* [n, ids, overtaken], n the push that issued it, overtaken
                     \* whether a later push's other result was stored meanwhile
    sub,             \* the newest run of subscribeCourses: [keys, st]
    staleSubs,       \* earlier runs whose cleanup called nothing: a bag of [keys, st]
    effects,         \* the effects of the last render that have not run yet
    currentAccount,  \* the viewer's account (useSubstrateState)
    dlgs,            \* the state of every action component: [open, target]
    tx,              \* the submission primitive: "none", "watched", "released"
    last             \* the step taken last

syncVars == <<mounted, contexts, courseIds, courses, countSub, staleCountSubs,
              pushCount, enums, sub, staleSubs, effects>>
viewVars == <<status, currentAccount, dlgs, tx>>
vars == <<ledger, chainOps, syncVars, viewVars, last>>

\* A step that no property looks at.
Other == [ev |-> "other"]

(* ---------------------------------------------------------------------- *)
(* Course.js                                                               *)
(* ---------------------------------------------------------------------- *)

\* parseCourse: the plain values of a record.
parseCourse(r) ==
    [dna |-> r.dna,
     price |-> OptionToJSON(r.price),
     course_year |-> NumToJSON(r.course_year),
     owner |-> AccountToJSON(r.owner)]

\* courses.entries(): the (key, Option<record>) pairs of the keys that exist.
Entries(l) ==
    LET present == SelectSeq(IdOrder, LAMBDA d : l[d].isSome)
    IN  [i \in 1..Len(present) |-> <<present[i], l[present[i]]>>]

\* entries.map(entry => entry[1].unwrap().dna)
EntryIds(entries) == [i \in 1..Len(entries) |-> entries[i][2].value.dna]

\* What courses.multi(keys, cb) delivers: the Option<record> of every key, in order.
MultiResult(keys, l) == [i \in 1..Len(keys) |-> l[keys[i]]]

\* Whether courses.map(course => parseCourse(course.unwrap())) throws:
\* Option.unwrap() throws on None.
MapThrows(recs) == \E i \in 1..Len(recs) : ~recs[i].isSome

\* courses.map(course => parseCourse(course.unwrap())), when nothing throws.
coursesMap(recs) == [i \in 1..Len(recs) |-> parseCourse(recs[i].value)]

\* A run of an effect is "pending" while its awaited open has not resolved (unsub
\* is null) and "open" once unsub is set. A run cleaned up while pending is an
\* "orphan" (the cleanup called nothing); when its open then resolves it is
\* "leaked": unsub is set in a closure that nobody calls any more. The stale
\* runs are kept as a bag: runs that agree in keys and state are counted.
NoSub == [keys |-> <<>>, st |-> "none"]

\* The cleanup of subscribeCount, () => { unsub && unsub() }: what it leaves
\* behind of the run it cleans up.
CleanupCount(st) == IF st = "pending" THEN SetToBag({"orphan"}) ELSE EmptyBag

\* The cleanup of subscribeCourses, () => { unsub && unsub() }: what it leaves
\* behind of the run it cleans up.
CleanupCourses(s) ==
    IF s.st = "pending" THEN SetToBag({[s EXCEPT !.st = "orphan"]}) ELSE EmptyBag

Remove(seq, k) == [i \in 1..(Len(seq) - 1) |-> IF i < k THEN seq[i] ELSE seq[i + 1]]

\* The calls in flight once the result of the k-th is stored: those of earlier
\* pushes, which stand before it, are overtaken if their result is another one.
Overtake(seq, k) ==
    [i \in 1..Len(seq) |->
        IF i < k /\ seq[i].ids # seq[k].ids THEN [seq[i] EXCEPT !.overtaken = TRUE]
        ELSE seq[i]]

\* subscribeCourses: asyncFetch() calls courses.multi(courseIds, cb) and awaits it.
RunSubscribeCourses(ids) == [keys |-> ids, st |-> "pending"]

(* ---------------------------------------------------------------------- *)
(* CourseCards.js                                                          *)
(* ---------------------------------------------------------------------- *)

\* Faulty variant: BuyCourse without its !course.price test.
BuyCourseActionsAlways(course) == {"buyCourse"}

\* BuyCourse: nothing is rendered when !course.price.
BuyCourseActions(course) == IF Falsy(course.price) THEN {} ELSE {"buyCourse"}

\* CourseCard: the action components rendered for a record.
CourseCardActions(course, viewer) ==
    IF course.owner = viewer THEN {"setPrice", "transfer"} ELSE BuyCourseActions(course)

\* Faulty variant: The transfer parameters in setPrice's order.
TransferAttrsSwapped(course, formValue) ==
    [palletRpc |-> "courseGrading", callable |-> "transfer",
     inputParams |-> <<course.dna, formValue>>, paramFields |-> <<TRUE, TRUE>>]

\* The attrs each dialog hands to its TxButton.
TransferAttrs(course, formValue) ==
    [palletRpc |-> "courseGrading", callable |-> "transfer",
     inputParams |-> <<formValue, course.dna>>, paramFields |-> <<TRUE, TRUE>>]
SetPriceAttrs(course, formValue) ==
    [palletRpc |-> "courseGrading", callable |-> "setPrice",
     inputParams |-> <<course.dna, formValue>>, paramFields |-> <<TRUE, TRUE>>]
BuyCourseAttrs(course) ==
    [palletRpc |-> "courseGrading", callable |-> "buyCourse",
     inputParams |-> <<course.dna, course.price>>, paramFields |-> <<TRUE, TRUE>>]
CreateCourseAttrs ==
    [palletRpc |-> "courseGrading", callable |-> "createCourse",
     inputParams |-> <<>>, paramFields |-> <<>>]

\* The action components: one of each kind on every card position (course-${i}).
Kinds == {"setPrice", "transfer", "buyCourse"}
Comps == (1..Len(IdOrder)) \X Kinds

\* The attrs of the component c with state d over the records cs.
DialogAttrs(c, d, cs) ==
    CASE c[2] = "transfer" -> TransferAttrs(cs[c[1]], d.target)
      [] c[2] = "setPrice" -> SetPriceAttrs(cs[c[1]], d.target)
      [] c[2] = "buyCourse" -> BuyCourseAttrs(cs[c[1]])

\* A component as it is mounted: useState(false), useState({}).
NoDialog == [open |-> FALSE, target |-> JUndefined]

\* Whether the component is mounted: cards are keyed by position, SetPrice and
\* TransferModal are mounted on the owner's cards, BuyCourse on the others.
DialogMounted(c, cs, viewer) ==
    /\ c[1] \in 1..Len(cs)
    /\ IF c[2] = "buyCourse" THEN cs[c[1]].owner # viewer
                              ELSE cs[c[1]].owner = viewer

\* The components after a render with courses cs: a mounted component keeps its
\* state, an unmounted one loses it.
Rendered(ds, cs, viewer) ==
    [c \in Comps |-> IF DialogMounted(c, cs, viewer) THEN ds[c] ELSE NoDialog]

\* Whether the component's modal is on screen: open, and the component renders it.
DialogVisible(ds, c, cs, viewer) ==
    /\ DialogMounted(c, cs, viewer)
    /\ ds[c].open
    /\ c[2] \in CourseCardActions(cs[c[1]], viewer)

\* What the TxButton passes to onClick: nothing, or the handle of its own watch.
Unsubs == {JUndefined, JFunction}

\* The transaction lifecycle texts the submission primitive reports.
TxStatuses == {"finalized", "error"}

(* ---------------------------------------------------------------------- *)
(* Steps of Course.js                                                      *)
(* ---------------------------------------------------------------------- *)

Init ==
    /\ ledger = [d \in Ids |-> None]
    /\ chainOps = 0
    /\ mounted = TRUE
    /\ contexts = 0
    /\ courseIds = <<>>
    /\ courses = <<>>
    /\ status = ""
    /\ countSub = "pending"
    /\ staleCountSubs = EmptyBag
    /\ sub = RunSubscribeCourses(<<>>)
    /\ staleSubs = EmptyBag
    /\ pushCount = 0
    /\ enums = <<>>
    /\ effects = "none"
    /\ currentAccount = "alice"
    /\ dlgs = [c \in Comps |-> NoDialog]
    /\ tx = "none"
    /\ last = Other

\* The awaited countForCourses(...) of the newest run resolves: unsub = <handle>.
CountOpen ==
    /\ countSub = "pending"
    /\ countSub' = "open"
    /\ last' = Other
    /\ UNCHANGED <<ledger, chainOps, mounted, contexts, courseIds, courses, staleCountSubs,
                   pushCount, enums, sub, staleSubs, effects, viewVars>>

\* The same for a run that was cleaned up while pending.
CountOpenLate ==
    /\ BagIn("orphan", staleCountSubs)
    /\ staleCountSubs' = (staleCountSubs (-) SetToBag({"orphan"})) (+) SetToBag({"leaked"})
    /\ last' = Other
    /\ UNCHANGED <<ledger, chainOps, mounted, contexts, courseIds, courses, countSub,
                   pushCount, enums, sub, staleSubs, effects, viewVars>>

\* The awaited countForCourses(...) rejects: asyncFetch() has no catch.
CountOpenFail ==
    /\ countSub = "pending"
    /\ countSub' = "none"
    /\ last' = [ev |-> "countOpenFail"]
    /\ UNCHANGED <<ledger, chainOps, mounted, contexts, courseIds, courses, staleCountSubs,
                   pushCount, enums, sub, staleSubs, effects, viewVars>>

\* The count callback is invoked: it issues courses.entries() and awaits it.
CountPush ==
    /\ countSub = "open" \/ BagIn("leaked", staleCountSubs)
    /\ pushCount < MaxPushes
    /\ pushCount' = pushCount + 1
    /\ enums' = Append(enums, [n |-> pushCount + 1, ids |-> EntryIds(Entries(ledger)),
                                overtaken |-> FALSE])
    /\ last' = Other
    /\ UNCHANGED <<ledger, chainOps, mounted, contexts, courseIds, courses, countSub,
                   staleCountSubs, sub, staleSubs, effects, viewVars>>

\* The k-th entries() in flight resolves: setCourseIds(ids), the last statement
\* of the callback. The component renders with the new array, a new dependency
\* of the subscribeCourses effect; the effect itself runs later (RunEffects).
\* Effects still waiting from the render before run ahead of a new render.
EnumResolve(k) ==
    /\ effects = "none"
    /\ IF mounted
       THEN /\ courseIds' = enums[k].ids
            /\ effects' = "courses"
            /\ enums' = Remove(Overtake(enums, k), k)
       ELSE /\ enums' = Remove(enums, k)
            /\ UNCHANGED <<courseIds, effects>>
    /\ last' = [ev |-> "enum", n |-> enums[k].n, ids |-> enums[k].ids,
                overtaken |-> enums[k].overtaken]
    /\ UNCHANGED <<ledger, chainOps, mounted, contexts, courses, countSub,
                   staleCountSubs, pushCount, sub, staleSubs, viewVars>>

\* The effects of the last render run: the cleanup of the previous run, then the
\* body. subscribeCourses runs when courseIds or the context changed,
\* subscribeCount when the context changed.
FlushEffects ==
    /\ effects' = "none"
    /\ staleSubs' = staleSubs (+) CleanupCourses(sub)
    /\ sub' = RunSubscribeCourses(courseIds)
    /\ IF effects = "both"
       THEN /\ staleCountSubs' = staleCountSubs (+) CleanupCount(countSub)
            /\ countSub' = "pending"
       ELSE UNCHANGED <<staleCountSubs, countSub>>

\* The effects run by themselves, after the render.
RunEffects ==
    /\ mounted
    /\ effects # "none"
    /\ FlushEffects
    /\ last' = Other
    /\ UNCHANGED <<ledger, chainOps, mounted, contexts, courseIds, courses, pushCount,
                   enums, viewVars>>

\* The k-th entries() in flight rejects inside the async count callback.
EnumFail(k) ==
    /\ enums' = Remove(enums, k)
    /\ last' = [ev |-> "enumFail"]
    /\ UNCHANGED <<ledger, chainOps, mounted, contexts, courseIds, courses, countSub,
                   staleCountSubs, pushCount, sub, staleSubs, effects, viewVars>>

\* The awaited courses.multi(...) of the newest run resolves: unsub = <handle>.
SubOpen ==
    /\ sub.st = "pending"
    /\ sub' = [sub EXCEPT !.st = "open"]
    /\ last' = Other
    /\ UNCHANGED <<ledger, chainOps, mounted, contexts, courseIds, courses, countSub,
                   staleCountSubs, pushCount, enums, staleSubs, effects, viewVars>>

\* The same for a run that was cleaned up while pending.
SubOpenLate(s) ==
    /\ s.st = "orphan"
    /\ staleSubs' = (staleSubs (-) SetToBag({s})) (+) SetToBag({[s EXCEPT !.st = "leaked"]})
    /\ last' = Other
    /\ UNCHANGED <<ledger, chainOps, mounted, contexts, courseIds, courses, countSub,
                   staleCountSubs, pushCount, enums, sub, effects, viewVars>>

\* The callback of a subscription with these keys, given the records of its keys:
\* setCourses(coursesMap), unless the map throws. setCourses renders, and effects
\* still waiting from the render before run ahead of the new render.
PushHandled(s) ==
    LET recs == MultiResult(s.keys, ledger) IN
    /\ IF MapThrows(recs) \/ ~mounted
       THEN UNCHANGED <<courses, dlgs, effects, sub, staleSubs, countSub, staleCountSubs>>
       ELSE /\ courses' = coursesMap(recs)
            /\ dlgs' = Rendered(dlgs, coursesMap(recs), currentAccount)
            /\ IF effects # "none"
               THEN FlushEffects
               ELSE UNCHANGED <<effects, sub, staleSubs, countSub, staleCountSubs>>
    /\ last' = [ev |-> "push", keys |-> s.keys,
                cur |-> s = sub /\ s.st = "open" /\ effects = "none",
                threw |-> MapThrows(recs)]
    /\ UNCHANGED <<ledger, chainOps, mounted, contexts, courseIds, pushCount, enums,
                   status, currentAccount, tx>>

\* The newest subscription delivers to its callback.
ResolvePush == sub.st = "open" /\ PushHandled(sub)

\* A leaked subscription delivers to its callback.
StalePush(s) == s.st = "leaked" /\ PushHandled(s)

\* api or keyring changes identity: the component renders with the new context,
\* a new dependency of both effects, which run later (RunEffects).
ContextChange ==
    /\ mounted
    /\ effects = "none"
    /\ contexts < MaxContextChanges
    /\ contexts' = contexts + 1
    /\ effects' = "both"
    /\ last' = [ev |-> "context"]
    /\ UNCHANGED <<ledger, chainOps, mounted, courseIds, courses, countSub, staleCountSubs,
                   pushCount, enums, sub, staleSubs, viewVars>>

\* The component is unmounted: both effects clean up, the cards go.
Unmount ==
    /\ mounted
    /\ effects = "none"
    /\ mounted' = FALSE
    /\ staleCountSubs' = staleCountSubs (+) CleanupCount(countSub)
    /\ countSub' = "none"
    /\ staleSubs' = staleSubs (+) CleanupCourses(sub)
    /\ sub' = NoSub
    /\ dlgs' = [c \in Comps |-> NoDialog]
    /\ last' = [ev |-> "teardown"]
    /\ UNCHANGED <<ledger, chainOps, contexts, courseIds, courses, pushCount, enums,
                   effects, status, currentAccount, tx>>

(* ---------------------------------------------------------------------- *)
(* Steps of CourseCards.js                                                 *)
(* ---------------------------------------------------------------------- *)

\* A handler of the cards sets state and so renders; effects still waiting from
\* the render before run ahead of it (RunEffects), then the handler's step.

\* Modal onOpen: the trigger of the action component c is clicked: setOpen(true).
OpenDialog(c) ==
    /\ mounted
    /\ effects = "none"
    /\ c[1] \in 1..Len(courses)
    /\ c[2] \in CourseCardActions(courses[c[1]], currentAccount)
    /\ ~dlgs[c].open
    /\ dlgs' = [dlgs EXCEPT ![c].open = TRUE]
    /\ last' = Other
    /\ UNCHANGED <<ledger, chainOps, syncVars, status, currentAccount, tx>>

\* formChange('target'): the input of a transfer or set-price dialog changes.
FormChange(c, v) ==
    /\ mounted
    /\ effects = "none"
    /\ DialogVisible(dlgs, c, courses, currentAccount)
    /\ c[2] \in {"transfer", "setPrice"}
    /\ dlgs[c].target # v
    /\ dlgs' = [dlgs EXCEPT ![c].target = v]
    /\ last' = Other
    /\ UNCHANGED <<ledger, chainOps, syncVars, status, currentAccount, tx>>

\* Cancel, or Modal onClose: setOpen(false).
CloseDialog(c) ==
    /\ mounted
    /\ effects = "none"
    /\ DialogVisible(dlgs, c, courses, currentAccount)
    /\ dlgs' = [dlgs EXCEPT ![c].open = FALSE]
    /\ last' = Other
    /\ UNCHANGED <<ledger, chainOps, syncVars, status, currentAccount, tx>>

\* TxButton: the button is enabled once every parameter is filled in.
TxButtonEnabled(attrs) ==
    \A i \in 1..Len(attrs.inputParams) : attrs.inputParams[i] \notin {JUndefined, JNull, JStr("")}

\* TxButton: a click hands attrs to the submission primitive, which watches the
\* transaction until the handle of its watch is called.
TxButtonClick(attrs, released) ==
    /\ TxButtonEnabled(attrs)
    /\ tx' = IF released THEN "released" ELSE "watched"

\* confirmAndClose: setOpen(false), and unsub() if unsub is a function.
confirmAndClose(d, unsub) ==
    [dlg |-> [d EXCEPT !.open = FALSE],
     called |-> ~Falsy(unsub) /\ unsub.t = "function"]

\* Faulty variant: The confirmed record is dropped from courses at once, ahead of the
\* next push.
ConfirmOptimistic(c) ==
    /\ mounted
    /\ effects = "none"
    /\ DialogVisible(dlgs, c, courses, currentAccount)
    /\ \E unsub \in Unsubs :
           /\ TxButtonClick(DialogAttrs(c, dlgs[c], courses), confirmAndClose(dlgs[c], unsub).called)
           /\ dlgs' = [dlgs EXCEPT ![c] = confirmAndClose(dlgs[c], unsub).dlg]
    /\ courses' = Remove(courses, c[1])
    /\ last' = [ev |-> "confirm", comp |-> c, target |-> dlgs[c].target,
                dna |-> courses[c[1]].dna, attrs |-> DialogAttrs(c, dlgs[c], courses)]
    /\ UNCHANGED <<ledger, chainOps, mounted, contexts, courseIds, countSub,
                   staleCountSubs, pushCount, enums, sub, staleSubs, effects, status,
                   currentAccount>>

\* The TxButton of the component c is clicked: the call is submitted and onClick
\* (confirmAndClose) closes the dialog.
Confirm(c) ==
    /\ mounted
    /\ effects = "none"
    /\ DialogVisible(dlgs, c, courses, currentAccount)
    /\ \E unsub \in Unsubs :
           /\ TxButtonClick(DialogAttrs(c, dlgs[c], courses), confirmAndClose(dlgs[c], unsub).called)
           /\ dlgs' = [dlgs EXCEPT ![c] = confirmAndClose(dlgs[c], unsub).dlg]
    /\ last' = [ev |-> "confirm", comp |-> c, target |-> dlgs[c].target,
                dna |-> courses[c[1]].dna, attrs |-> DialogAttrs(c, dlgs[c], courses)]
    /\ UNCHANGED <<ledger, chainOps, syncVars, status, currentAccount>>

\* The Create Course TxButton of the Courses view is clicked; it has no onClick.
CreateCourse ==
    /\ mounted
    /\ effects = "none"
    /\ TxButtonClick(CreateCourseAttrs, FALSE)
    /\ last' = [ev |-> "create", attrs |-> CreateCourseAttrs]
    /\ UNCHANGED <<ledger, chainOps, syncVars, status, currentAccount, dlgs>>

\* A status callback of a watched transaction: setStatus(text).
TxStatus(text) ==
    /\ mounted
    /\ effects = "none"
    /\ tx = "watched"
    /\ status' = text
    /\ last' = [ev |-> "txStatus"]
    /\ UNCHANGED <<ledger, chainOps, syncVars, currentAccount, dlgs, tx>>

(* ---------------------------------------------------------------------- *)
(* The ledger                                                              *)
(* ---------------------------------------------------------------------- *)

ChainStep(l) ==
    /\ chainOps < MaxChainOps
    /\ chainOps' = chainOps + 1
    /\ ledger' = l
    /\ last' = Other
    /\ UNCHANGED <<syncVars, viewVars>>

\* createCourse: a record appears, owned by its creator and not for sale.
ChainCreate(d, o) ==
    /\ ~ledger[d].isSome
    /\ \E y \in YearValues : ChainStep([ledger EXCEPT ![d] =
                     Some([dna |-> d, owner |-> o, price |-> None, course_year |-> y])])

\* setPrice: the record's price is set.
ChainSetPrice(d, p) ==
    /\ ledger[d].isSome
    /\ ledger[d].value.price # Some(p)
    /\ ChainStep([ledger EXCEPT ![d].value.price = Some(p)])

\* transfer, buyCourse: the record changes owner.
ChainTransfer(d, o) ==
    /\ ledger[d].isSome
    /\ ledger[d].value.owner # o
    /\ ChainStep([ledger EXCEPT ![d].value.owner = o])

\* The record is removed from the ledger.
ChainRemove(d) == ledger[d].isSome /\ ChainStep([ledger EXCEPT ![d] = None])

Chain ==
    \/ \E d \in Ids, o \in Accounts : ChainCreate(d, o) \/ ChainTransfer(d, o)
    \/ \E d \in Ids, p \in PriceValues : ChainSetPrice(d, p)
    \/ \E d \in Ids : ChainRemove(d)

\* The subscriptions at work.
Feed ==
    \/ CountOpen
    \/ CountPush
    \/ \E k \in DOMAIN enums : EnumResolve(k)
    \/ RunEffects
    \/ SubOpen
    \/ ResolvePush

\* Rejections, and the runs that were cleaned up while pending.
Faults ==
    \/ CountOpenFail
    \/ \E k \in DOMAIN enums : EnumFail(k)
    \/ CountOpenLate
    \/ \E s \in BagToSet(staleSubs) : SubOpenLate(s)
    \/ \E s \in BagToSet(staleSubs) : StalePush(s)

\* Deactivation.
Lifecycle == ContextChange \/ Unmount

View ==
    \/ \E c \in Comps : OpenDialog(c)
    \/ \E c \in Comps, v \in FormInputs : FormChange(c, v)
    \/ \E c \in Comps : CloseDialog(c)
    \/ \E c \in Comps : Confirm(c)
    \/ CreateCourse
    \/ \E t \in TxStatuses : TxStatus(t)

Next == Feed \/ Faults \/ Lifecycle \/ Chain \/ View

Spec == Init /\ [][Next]_vars

\* The synchronisation alone: nobody touches the cards.
SpecSync == Init /\ [][Feed \/ Faults \/ Lifecycle \/ Chain]_vars

\* The aggregate subscription alone: the resolution subscriptions never open.
SpecCount ==
    Init /\ [][\/ CountOpen
               \/ CountOpenLate
               \/ CountOpenFail
               \/ CountPush
               \/ \E k \in DOMAIN enums : EnumResolve(k)
               \/ RunEffects
               \/ \E k \in DOMAIN enums : EnumFail(k)
               \/ Lifecycle
               \/ Chain]_vars

\* The records as they reach the cards: subscriptions that stay up, nobody
\* touches the cards.
SpecRender == Init /\ [][Feed \/ Chain]_vars

\* The user works with the transfer dialogs alone.
TransferView ==
    \/ \E i \in 1..Len(IdOrder) : OpenDialog(<<i, "transfer">>)
    \/ \E c \in Comps, v \in FormInputs : FormChange(c, v)
    \/ \E c \in Comps : CloseDialog(c)
    \/ \E c \in Comps : Confirm(c)
    \/ \E t \in TxStatuses : TxStatus(t)

\* The transfer dialogs over subscriptions that stay up.
SpecTransfer == Init /\ [][Feed \/ Chain \/ TransferView]_vars

\* The cards and the Create Course button over subscriptions that stay up.
SpecView == Init /\ [][Feed \/ Chain \/ View]_vars

(* ---------------------------------------------------------------------- *)
(* Properties                                                              *)
(* ---------------------------------------------------------------------- *)

\* The parsed records of the identifiers of keys that exist on the ledger l.
Resolution(keys, l) ==
    LET present == SelectSeq(keys, LAMBDA d : l[d].isSome)
    IN  [i \in 1..Len(present) |-> parseCourse(l[present[i]].value)]

\* How many identifiers of keys have no record on the ledger l.
Missing(keys, l) == Cardinality({i \in 1..Len(keys) : ~l[keys[i]].isSome})

\* C1: once the newest resolution subscription, the one opened for the stored
\* courseIds (no effect was waiting to run), has delivered and its callback has
\* run, courses are exactly the parsed records of the identifiers of courseIds
\* that exist; no record of a removed identifier stays.
C1_CoursesResolveCourseIds ==
    (last.ev = "push" /\ last.cur /\ mounted) => courses = Resolution(courseIds, ledger)

\* C2: when the enumeration of push n has been processed, the stored courseIds
\* are exactly that enumeration's identifiers, nothing of the previous courseIds
\* is kept, and they do not replace the result of a later push that was stored
\* before: courseIds never fall back to the enumeration of an earlier push.
C2_CourseIdsAreOwnEnumeration ==
    (last.ev = "enum" /\ mounted) => (courseIds = last.ids /\ ~last.overtaken)

\* C3: a push that holds an absent record is handled without an exception, and
\* leaves in courses the parsed records of the other identifiers.
C3_AbsentRecordExcluded ==
    (last.ev = "push" /\ mounted /\ Missing(last.keys, ledger) > 0)
        => (~last.threw /\ courses = Resolution(last.keys, ledger))

\* What the claim C4 says is rendered for a record and a viewer.
ClaimedActions(course, viewer) ==
    IF course.owner = viewer THEN {"setPrice", "transfer"}
    ELSE IF course.price # JNull /\ course.price # JNum(0) THEN {"buyCourse"}
    ELSE {}

\* C4: for every rendered record and every viewer account the action set is
\* {setPrice, transfer} for the owner, {buyCourse} for another account when the
\* price is present and not zero, and empty otherwise.
C4_ActionsByOwnershipAndPrice ==
    \A i \in DOMAIN courses, a \in Accounts :
        CourseCardActions(courses[i], a) = ClaimedActions(courses[i], a)

\* C4 witness: the viewer sees a record of another account priced zero, for
\* which nothing is rendered.
C4_Witness ==
    \E i \in DOMAIN courses :
        /\ courses[i].owner # currentAccount
        /\ courses[i].price = JNum(0)
        /\ CourseCardActions(courses[i], currentAccount) = {}

\* C5: with the api/keyring context as it was at mount, so that only changes of
\* courseIds have run the effect again: once the changes have settled (no effect
\* is waiting to run and no open is pending), exactly one resolution subscription
\* is active and its keys are the stored courseIds.
C5_OneActiveSubscription ==
    (mounted /\ contexts = 0 /\ effects = "none" /\ sub.st = "open"
        /\ \A s \in BagToSet(staleSubs) : s.st # "orphan")
        => (BagToSet(staleSubs) = {} /\ sub.keys = courseIds)

\* C6: once the component is deactivated, no subscription it opened is still
\* delivering: both were released.
C6_TeardownReleasesBoth ==
    ~mounted => /\ ~BagIn("leaked", staleCountSubs)
                /\ \A s \in BagToSet(staleSubs) : s.st # "leaked"

\* The status texts that report a failure.
FailureStatuses == {"error"}

\* C7: right after the open of the aggregate subscription or its enumeration
\* was rejected, the status string holds a failure message.
C7_FailureReachesStatus ==
    last.ev \in {"countOpenFail", "enumFail"} => status \in FailureStatuses

\* C8: confirming a transfer dialog submits transfer of courseGrading with the
\* parameters [recipient, identifier] (the recipient held by the dialog, the
\* identifier of its card's record) and the flags [true, true] and closes that
\* dialog; no later status callback changes a dialog.
C8_TransferDescriptor ==
    [][/\ (last'.ev = "confirm" /\ last'.comp[2] = "transfer") =>
              /\ last'.attrs = [palletRpc |-> "courseGrading", callable |-> "transfer",
                                inputParams |-> <<dlgs[last'.comp].target,
                                                  courses[last'.comp[1]].dna>>,
                                paramFields |-> <<TRUE, TRUE>>]
              /\ dlgs[last'.comp].open /\ ~dlgs'[last'.comp].open
       /\ last'.ev = "txStatus" => dlgs' = dlgs]_vars

\* C8 witness: a transfer to "bob" was just confirmed and its dialog is closed.
C8_Witness ==
    /\ last.ev = "confirm" /\ last.comp[2] = "transfer"
    /\ last.target = JStr("bob") /\ last.dna \in Ids
    /\ ~dlgs[last.comp].open

\* C9: after every resolution push, courses has as many entries as the pushing
\* subscription has keys, less the keys whose record is missing.
C9_SizeMatchesKeys ==
    (last.ev = "push" /\ mounted)
        => Len(courses) = Len(last.keys) - Missing(last.keys, ledger)

\* The steps of a transaction: a submission or one of its status callbacks.
TxEvents == {"confirm", "create", "txStatus"}

\* C10: a submission or a status callback changes neither courseIds nor courses
\* nor anything else of the synchronisation, and of the dialogs nothing but the
\* open flag; courseIds change only when an enumeration is processed, courses
\* only when a resolution push is.
C10_NoOptimisticMutation ==
    [][/\ last'.ev \in TxEvents =>
              /\ UNCHANGED <<ledger, syncVars, currentAccount>>
              /\ \A c \in Comps : dlgs'[c].target = dlgs[c].target
       /\ courseIds' # courseIds => last'.ev = "enum"
       /\ courses' # courses => last'.ev = "push"]_vars

\* C10 witness: a transaction failed after it was submitted from a view that
\* shows records.
C10_Witness ==
    last.ev = "txStatus" /\ status = "error" /\ tx = "watched" /\ courses # <<>>

====
